---- MODULE Spec2Model ----
(***************************************************************************)
(* Listing queries of arxiv-browse: browse/services/database/listings.py.  *)
(*                                                                         *)
(* The module is a set of stateless, read-only functions over two inputs:  *)
(* the taxonomy (arxiv.taxonomy) and the metadata store (Document,         *)
(* DocumentCategory and Metadata tables).  A behaviour is one call: Init   *)
(* draws the taxonomy, the store content and the arguments of the call,    *)
(* and the action of the called function computes its result.              *)
(*                                                                         *)
(* Strings are sequences of one-character strings, so that startswith,     *)
(* LIKE '%..%', split, substr, int() and the f-string formatting are       *)
(* computed character by character.  Python's None and "" are both <<>>    *)
(* (the code only tests them for truthiness).                              *)
(***************************************************************************)
EXTENDS Integers, Sequences, FiniteSets, TLC

VARIABLES
    CATEGORY_ALIASES,   \* taxonomy.CATEGORY_ALIASES.items(), in dict order
    ARCHIVES_SUBSUMED,  \* taxonomy.ARCHIVES_SUBSUMED.items(), in dict order
    store,              \* document ids whose rows are in the three tables
    call,               \* the call being served: function name and arguments
    result              \* what the call returned (status "none" before it ran)

vars == <<CATEGORY_ALIASES, ARCHIVES_SUBSUMED, store, call, result>>

-----------------------------------------------------------------------------
(* Bounds of the model *)

MaxDocs == 3    \* most documents in the store
MaxSkip == 2    \* largest skip (offset) tried
MaxShow == 3    \* largest show (limit) tried

-----------------------------------------------------------------------------
(* Strings *)

None == <<>>
SP == <<" ">>
SLASH == <<"/">>
DOT == <<".">>

Digits == <<"0", "1", "2", "3", "4", "5", "6", "7", "8", "9">>

\* characters of paper ids in collation (ASCII) order
Alphabet ==
    <<" ", "-", ".", "/", "0", "1", "2", "3", "4", "5", "6", "7", "8", "9",
      "a", "c", "e", "g", "h", "l", "m", "o", "p", "s", "t", "x">>

CharCode(c) == CHOOSE i \in DOMAIN Alphabet : Alphabet[i] = c

Min(S) == CHOOSE x \in S : \A y \in S : x <= y

Range(s) == {s[i] : i \in DOMAIN s}

\* str.startswith(p) / SQL column.startswith(p)
StartsWith(s, p) ==
    /\ Len(p) <= Len(s)
    /\ SubSeq(s, 1, Len(p)) = p

\* p in s / SQL column LIKE '%p%'
Contains(s, p) ==
    \E i \in 1..(Len(s) - Len(p) + 1) : SubSeq(s, i, i + Len(p) - 1) = p

\* f"{n:02d}" for 0 <= n < 100
Pad2(n) == <<Digits[(n \div 10) + 1], Digits[(n % 10) + 1]>>

\* int(s) for a string of decimal digits
DigitVal(c) == (CHOOSE i \in DOMAIN Digits : Digits[i] = c) - 1

RECURSIVE ParseInt(_)
ParseInt(s) ==
    IF s = <<>> THEN 0
    ELSE 10 * ParseInt(SubSeq(s, 1, Len(s) - 1)) + DigitVal(s[Len(s)])

\* str.split(): the maximal runs of non-blank characters
RECURSIVE Split(_)
Split(s) ==
    IF s = <<>> THEN <<>>
    ELSE IF s[1] = " " THEN Split(Tail(s))
    ELSE LET blanks == {i \in DOMAIN s : s[i] = " "}
             stop == IF blanks = {} THEN Len(s) + 1 ELSE Min(blanks)
         IN  <<SubSeq(s, 1, stop - 1)>> \o Split(SubSeq(s, stop, Len(s)))

\* string order of ORDER BY on paper_id
RECURSIVE StrLess(_, _)
StrLess(a, b) ==
    IF b = <<>> THEN FALSE
    ELSE IF a = <<>> THEN TRUE
    ELSE IF a[1] = b[1] THEN StrLess(Tail(a), Tail(b))
    ELSE CharCode(a[1]) < CharCode(b[1])

-----------------------------------------------------------------------------
(* Taxonomy: a fragment of arxiv.taxonomy.definitions *)

s_math == <<"m", "a", "t", "h">>
s_math_ph == <<"m", "a", "t", "h", "-", "p", "h">>
s_cs == <<"c", "s">>
s_stat == <<"s", "t", "a", "t">>
s_alg_geom == <<"a", "l", "g", "-", "g", "e", "o", "m">>
s_xx_ZZ == <<"x", "x", ".", "Z", "Z">>
s_math_AG == <<"m", "a", "t", "h", ".", "A", "G">>
s_math_MP == <<"m", "a", "t", "h", ".", "M", "P">>
s_math_IT == <<"m", "a", "t", "h", ".", "I", "T">>
s_math_ST == <<"m", "a", "t", "h", ".", "S", "T">>
s_cs_IT == <<"c", "s", ".", "I", "T">>
s_cs_AI == <<"c", "s", ".", "A", "I">>
s_cs_LG == <<"c", "s", ".", "L", "G">>
s_stat_TH == <<"s", "t", "a", "t", ".", "T", "H">>

\* taxonomy.ARCHIVES (its keys)
ARCHIVES == {s_alg_geom, s_cs, s_math, s_math_ph, s_stat}

\* CATEGORIES.items() in dict order: <<category, CATEGORIES[category]["in_archive"]>>
CATEGORIES ==
    << <<s_alg_geom, s_alg_geom>>,
       <<s_cs_AI, s_cs>>,
       <<s_cs_IT, s_cs>>,
       <<s_cs_LG, s_cs>>,
       <<s_math_AG, s_math>>,
       <<s_math_IT, s_math>>,
       <<s_math_MP, s_math>>,
       <<s_math_ST, s_math>>,
       <<s_math_ph, s_math_ph>>,
       <<s_stat_TH, s_stat>> >>

CategoryNames == {CATEGORIES[i][1] : i \in DOMAIN CATEGORIES}

\* the alias pairs <<old, new>> and subsumed archives <<old archive, new category>>
\* the taxonomy may define
AliasPool ==
    << <<s_math_MP, s_math_ph>>, <<s_stat_TH, s_math_ST>>, <<s_math_IT, s_cs_IT>> >>

SubsumedPool == << <<s_alg_geom, s_math_AG>> >>

\* the items of pool at the indices S, in pool order
RECURSIVE Pick(_, _)
Pick(pool, S) ==
    IF pool = <<>> THEN <<>>
    ELSE LET rest == Pick(SubSeq(pool, 1, Len(pool) - 1), S)
         IN  IF Len(pool) \in S THEN Append(rest, pool[Len(pool)]) ELSE rest

SubDicts(pool) == {Pick(pool, S) : S \in SUBSET DOMAIN pool}

\* tokens a caller may pass: every archive, every category, one unknown name
Tokens == ARCHIVES \cup CategoryNames \cup {s_xx_ZZ}

-----------------------------------------------------------------------------
(* Taxonomy resolver *)

\* faulty variant: the subsumed mapping read from old name to new name
check_alternate_name_subsumed_reversed(category) ==
    LET aliasHits == {i \in DOMAIN CATEGORY_ALIASES :
                         category = CATEGORY_ALIASES[i][1] \/ category = CATEGORY_ALIASES[i][2]}
        subsumedHits == {i \in DOMAIN ARCHIVES_SUBSUMED : category = ARCHIVES_SUBSUMED[i][1]}
    IN  IF aliasHits # {}
        THEN LET kv == CATEGORY_ALIASES[Min(aliasHits)]
             IN  IF category = kv[1] THEN kv[2] ELSE kv[1]
        ELSE IF subsumedHits # {}
        THEN ARCHIVES_SUBSUMED[Min(subsumedHits)][2]
        ELSE None

\* faulty variant: an alias found only under its old name
check_alternate_name_one_way(category) ==
    LET aliasHits == {i \in DOMAIN CATEGORY_ALIASES : category = CATEGORY_ALIASES[i][1]}
        subsumedHits == {i \in DOMAIN ARCHIVES_SUBSUMED : category = ARCHIVES_SUBSUMED[i][2]}
    IN  IF aliasHits # {}
        THEN CATEGORY_ALIASES[Min(aliasHits)][2]
        ELSE IF subsumedHits # {}
        THEN ARCHIVES_SUBSUMED[Min(subsumedHits)][1]
        ELSE None

\* The first alias item naming category (as key or as value) gives the other
\* name; failing that, the first subsumed item whose value is category gives
\* its key (the old archive name); failing that, None.
_check_alternate_name(category) ==
    LET aliasHits == {i \in DOMAIN CATEGORY_ALIASES :
                         category = CATEGORY_ALIASES[i][1] \/ category = CATEGORY_ALIASES[i][2]}
        subsumedHits == {i \in DOMAIN ARCHIVES_SUBSUMED : category = ARCHIVES_SUBSUMED[i][2]}
    IN  IF aliasHits # {}
        THEN LET kv == CATEGORY_ALIASES[Min(aliasHits)]
             IN  IF category = kv[1] THEN kv[2] ELSE kv[1]
        ELSE IF subsumedHits # {}
        THEN ARCHIVES_SUBSUMED[Min(subsumedHits)][1]
        ELSE None

\* faulty variant: alternate names left out
RECURSIVE categories_from_archive_no_alternates(_, _)
categories_from_archive_no_alternates(archive, n) ==
    IF n = 0 THEN <<>>
    ELSE LET list == categories_from_archive_no_alternates(archive, n - 1)
             category == CATEGORIES[n][1]
         IN  IF CATEGORIES[n][2] = archive THEN Append(list, category) ELSE list

\* the loop of get_categories_from_archive over the first n keys of CATEGORIES
RECURSIVE categories_from_archive_loop(_, _)
categories_from_archive_loop(archive, n) ==
    IF n = 0 THEN <<>>
    ELSE LET list == categories_from_archive_loop(archive, n - 1)
             category == CATEGORIES[n][1]
             second_name == _check_alternate_name(category)
         IN  IF CATEGORIES[n][2] = archive
             THEN IF second_name # None
                  THEN list \o <<category, second_name>>
                  ELSE Append(list, category)
             ELSE list

get_categories_from_archive(archive) ==
    categories_from_archive_loop(archive, Len(CATEGORIES))

\* faulty variant: an unknown name resolves to the empty list
all_possible_categories_no_raise(archive_or_cat) ==
    IF archive_or_cat \in ARCHIVES
    THEN [status |-> "ok", value |-> get_categories_from_archive(archive_or_cat)]
    ELSE IF archive_or_cat \in CategoryNames
    THEN LET second_name == _check_alternate_name(archive_or_cat)
         IN  IF second_name # None
             THEN [status |-> "ok", value |-> <<archive_or_cat, second_name>>]
             ELSE [status |-> "ok", value |-> <<archive_or_cat>>]
    ELSE [status |-> "ok", value |-> <<>>]

\* [status |-> "ok", value |-> the list] or [status |-> "BadRequest"]
_all_possible_categories(archive_or_cat) ==
    IF archive_or_cat \in ARCHIVES
    THEN [status |-> "ok", value |-> get_categories_from_archive(archive_or_cat)]
    ELSE IF archive_or_cat \in CategoryNames
    THEN LET second_name == _check_alternate_name(archive_or_cat)
         IN  IF second_name # None
             THEN [status |-> "ok", value |-> <<archive_or_cat, second_name>>]
             ELSE [status |-> "ok", value |-> <<archive_or_cat>>]
    ELSE [status |-> "BadRequest", value |-> <<>>]

-----------------------------------------------------------------------------
(* One call of the resolver *)

NoResult == [status |-> "none"]

InitResolve ==
    /\ CATEGORY_ALIASES \in SubDicts(AliasPool)
    /\ ARCHIVES_SUBSUMED \in SubDicts(SubsumedPool)
    /\ store = {}
    /\ call \in [op : {"_all_possible_categories"}, archive_or_cat : Tokens]
    /\ result = NoResult

AllPossibleCategories ==
    /\ call.op = "_all_possible_categories"
    /\ result.status = "none"
    /\ result' = _all_possible_categories(call.archive_or_cat)
    /\ UNCHANGED <<CATEGORY_ALIASES, ARCHIVES_SUBSUMED, store, call>>

NextResolve == AllPossibleCategories

SpecResolve == InitResolve /\ [][NextResolve]_vars

-----------------------------------------------------------------------------
(* Properties of the resolver *)

Resolved == call.op = "_all_possible_categories" /\ result.status # "none"

\* every name the taxonomy pairs with c: its alias partner in either direction,
\* and the old archive name when c is what a subsumed archive became
AlternateNames(c) ==
    {CATEGORY_ALIASES[i][2] : i \in {j \in DOMAIN CATEGORY_ALIASES : CATEGORY_ALIASES[j][1] = c}}
    \cup {CATEGORY_ALIASES[i][1] : i \in {j \in DOMAIN CATEGORY_ALIASES : CATEGORY_ALIASES[j][2] = c}}
    \cup {ARCHIVES_SUBSUMED[i][1] : i \in {j \in DOMAIN ARCHIVES_SUBSUMED : ARCHIVES_SUBSUMED[j][2] = c}}

CategoriesIn(archive) == {CATEGORIES[i][1] : i \in {j \in DOMAIN CATEGORIES : CATEGORIES[j][2] = archive}}

\* C5 (alias symmetry): for every (old, new) pair of CATEGORY_ALIASES, resolving
\* old and resolving new each succeed with a list that contains both names.
C5_AliasSymmetry ==
    Resolved =>
        \A i \in DOMAIN CATEGORY_ALIASES :
            call.archive_or_cat \in {CATEGORY_ALIASES[i][1], CATEGORY_ALIASES[i][2]} =>
                /\ result.status = "ok"
                /\ {CATEGORY_ALIASES[i][1], CATEGORY_ALIASES[i][2]} \subseteq Range(result.value)

\* the new name of an alias pair was resolved (once through the category
\* branch, once through the archive branch) and the old name came back with it
C5_Witness ==
    /\ Resolved
    /\ \E i \in DOMAIN CATEGORY_ALIASES :
           /\ call.archive_or_cat = CATEGORY_ALIASES[i][2]
           /\ CATEGORY_ALIASES[i][1] \in Range(result.value)

\* C8 (archive resolution completeness): resolving an archive yields exactly
\* the categories whose in_archive is that archive plus every alternate name of
\* each of them, and no name twice.
C8_ArchiveResolution ==
    (Resolved /\ call.archive_or_cat \in ARCHIVES) =>
        /\ result.status = "ok"
        /\ Range(result.value) =
               CategoriesIn(call.archive_or_cat)
               \cup UNION {AlternateNames(c) : c \in CategoriesIn(call.archive_or_cat)}
        /\ Len(result.value) = Cardinality(Range(result.value))

\* an archive was resolved and the list holds a name from outside the archive
C8_Witness ==
    /\ Resolved
    /\ call.archive_or_cat \in ARCHIVES
    /\ Range(result.value) \ CategoriesIn(call.archive_or_cat) # {}
    /\ Cardinality(CategoriesIn(call.archive_or_cat)) > 1

\* C9 as stated (subsumed-archive resolution in both directions): for every
\* old -> new pair of ARCHIVES_SUBSUMED, resolving old returns new, resolving
\* new returns old, and a category token gets at most one alternate name.
C9_SubsumedBothWays ==
    Resolved =>
        \A i \in DOMAIN ARCHIVES_SUBSUMED :
            LET old == ARCHIVES_SUBSUMED[i][1]
                new == ARCHIVES_SUBSUMED[i][2]
            IN  /\ call.archive_or_cat = old => new \in Range(result.value)
                /\ call.archive_or_cat = new =>
                       old \in Range(result.value) /\ Len(result.value) <= 2

\* C9 amended (subsumed-archive resolution, new name to old name only): for
\* every old -> new pair, resolving new returns new followed by old and
\* nothing else, and resolving old does not return new.
C9_SubsumedNewToOld ==
    Resolved =>
        \A i \in DOMAIN ARCHIVES_SUBSUMED :
            LET old == ARCHIVES_SUBSUMED[i][1]
                new == ARCHIVES_SUBSUMED[i][2]
            IN  /\ call.archive_or_cat = new =>
                       result.status = "ok" /\ result.value = <<new, old>>
                /\ call.archive_or_cat = old =>
                       result.status = "ok" /\ new \notin Range(result.value)

\* the new name of a subsumed archive was resolved
C9_Witness ==
    /\ Resolved
    /\ \E i \in DOMAIN ARCHIVES_SUBSUMED :
           /\ call.archive_or_cat = ARCHIVES_SUBSUMED[i][2]
           /\ ARCHIVES_SUBSUMED[i][1] \in Range(result.value)

-----------------------------------------------------------------------------
(* Metadata store: the rows the three tables may hold.  The rows of a        *)
(* document are consistent the way the store keeps them: one current         *)
(* Metadata row per document, one DocumentCategory row per category of the   *)
(* current abs_categories, is_primary = 1 on the row of its first category.  *)

pid1 == <<"0", "7", "0", "4", ".", "0", "0", "0", "1">>
pid2 == <<"m", "a", "t", "h", "/", "0", "7", "0", "3", "0", "0", "1">>
pid3 == <<"m", "a", "t", "h", "-", "p", "h", "/", "0", "7", "0", "3", "0", "0", "2">>
pid4 == <<"0", "7", "0", "4", ".", "0", "0", "0", "2">>
pid5 == <<"0", "8", "0", "3", ".", "0", "7", "0", "4">>
pid6 == <<"m", "a", "t", "h", "/", "0", "6", "1", "2", "0", "3", "4">>
pid7 == <<"0", "7", "0", "4", ".", "0", "0", "0", "3">>
pid8 == <<"0", "8", "1", "2", ".", "0", "0", "0", "1">>

\* arXiv_documents: document_id, paper_id
DocumentPool ==
    {[document_id |-> 1, paper_id |-> pid1], [document_id |-> 2, paper_id |-> pid2],
     [document_id |-> 3, paper_id |-> pid3], [document_id |-> 4, paper_id |-> pid4],
     [document_id |-> 5, paper_id |-> pid5], [document_id |-> 6, paper_id |-> pid6],
     [document_id |-> 7, paper_id |-> pid7], [document_id |-> 8, paper_id |-> pid8]}

DC(d, c, p) == [document_id |-> d, category |-> c, is_primary |-> p]

\* arXiv_document_category: document_id, category, is_primary
DocumentCategoryPool ==
    {DC(1, s_math_AG, 1), DC(1, s_cs_AI, 0),
     DC(2, s_math_AG, 1),
     DC(3, s_math_ph, 1), DC(3, s_math_MP, 0),
     DC(4, s_cs_IT, 1), DC(4, s_math_IT, 0),
     DC(5, s_cs_AI, 1), DC(5, s_cs_LG, 0),
     DC(6, s_math_AG, 1),
     DC(7, s_cs_LG, 1), DC(7, s_math_AG, 0),
     DC(8, s_math_AG, 1), DC(8, s_cs_LG, 0)}

MD(d, p, v, cur, cats) ==
    [document_id |-> d, paper_id |-> p, version |-> v, is_current |-> cur,
     abs_categories |-> cats]

\* arXiv_metadata: one row per version of a document
MetadataPool ==
    {MD(1, pid1, 1, 0, s_cs_AI \o SP \o s_math_AG),
     MD(1, pid1, 2, 1, s_math_AG \o SP \o s_cs_AI),
     MD(2, pid2, 1, 1, s_math_AG),
     MD(3, pid3, 1, 1, s_math_ph \o SP \o s_math_MP),
     MD(4, pid4, 1, 1, s_cs_IT \o SP \o s_math_IT),
     MD(5, pid5, 1, 1, s_cs_AI \o SP \o s_cs_LG),
     MD(6, pid6, 1, 0, s_math_AG),
     MD(6, pid6, 2, 1, s_math_AG),
     MD(7, pid7, 1, 1, s_cs_LG \o SP \o s_math_AG),
     MD(8, pid8, 1, 1, s_math_AG \o SP \o s_cs_LG)}

DocumentIds == {d.document_id : d \in DocumentPool}

\* the store contents tried: up to MaxDocs documents with all their rows
Stores == {S \in SUBSET DocumentIds : Cardinality(S) <= MaxDocs}

\* the tables as the store holds them
Document == {d \in DocumentPool : d.document_id \in store}
DocumentCategory == {r \in DocumentCategoryPool : r.document_id \in store}
Metadata == {m \in MetadataPool : m.document_id \in store}

Years == {2006, 2007, 2008}
\* month 0 stands for "no month" (None and 0 are both false in `if month`)
Months == {0, 3, 4, 12}

-----------------------------------------------------------------------------
(* get_articles_for_month *)

\* faulty variant: 2007 treated as a new-id year
doc_ids_new_from_2007(year, month) ==
    LET yy == Pad2(year % 100)
        prefix == IF month # 0 THEN yy \o Pad2(month) ELSE yy
        selected(paper_id) ==
            IF year >= 2007 THEN StartsWith(paper_id, prefix)
            ELSE Contains(paper_id, SLASH \o prefix)
    IN  {d.document_id : d \in {x \in Document : selected(x.paper_id)}}

\* document ids whose paper_id is in the requested year (and month)
doc_ids(year, month) ==
    LET yy == Pad2(year % 100)
        prefix == IF month # 0 THEN yy \o Pad2(month) ELSE yy
        selected(paper_id) ==
            IF year > 2007 THEN StartsWith(paper_id, prefix)
            ELSE IF year < 2007 THEN Contains(paper_id, SLASH \o prefix)
            ELSE StartsWith(paper_id, prefix) \/ Contains(paper_id, SLASH \o prefix)
    IN  {d.document_id : d \in {x \in Document : selected(x.paper_id)}}

Max(S) == CHOOSE x \in S : \A y \in S : x >= y

\* faulty variant: min(is_primary) in place of max
cat_query_min(ids, category_list) ==
    LET rows(d) == {r \in DocumentCategory :
                       r.document_id = d /\ r.category \in Range(category_list)}
    IN  {[document_id |-> d, is_primary |-> Min({r.is_primary : r \in rows(d)})] :
            d \in {x \in ids : rows(x) # {}}}

\* per document of ids with a category of category_list: max(is_primary)
cat_query(ids, category_list) ==
    LET rows(d) == {r \in DocumentCategory :
                       r.document_id = d /\ r.category \in Range(category_list)}
    IN  {[document_id |-> d, is_primary |-> Max({r.is_primary : r \in rows(d)})] :
            d \in {x \in ids : rows(x) # {}}}

\* join with the current Metadata row of the same document
main_query(cq) ==
    UNION {{[meta |-> m, is_primary |-> r.is_primary] :
               m \in {x \in Metadata : x.document_id = r.document_id /\ x.is_current = 1}} :
           r \in cq}

\* faulty variant: paper ids in descending order
row_before_descending_ids(a, b) ==
    \/ a.is_primary > b.is_primary
    \/ a.is_primary = b.is_primary /\ StrLess(b.meta.paper_id, a.meta.paper_id)

\* order_by(is_primary.desc(), meta.paper_id)
row_before(a, b) ==
    \/ a.is_primary > b.is_primary
    \/ a.is_primary = b.is_primary /\ StrLess(a.meta.paper_id, b.meta.paper_id)

RECURSIVE order_by(_)
order_by(rows) ==
    IF rows = {} THEN <<>>
    ELSE LET first == CHOOSE r \in rows : \A o \in rows : ~row_before(o, r)
         IN  <<first>> \o order_by(rows \ {first})

\* faulty variant: the offset off by one
offset_limit_skip_one_more(ordered, skip, show) ==
    SubSeq(ordered, skip + 2, IF skip + 1 + show < Len(ordered) THEN skip + 1 + show ELSE Len(ordered))

\* .offset(skip).limit(show)
offset_limit(ordered, skip, show) ==
    SubSeq(ordered, skip + 1, IF skip + show < Len(ordered) THEN skip + show ELSE Len(ordered))

ListingItem(entry) ==
    [id |-> entry.meta.paper_id,
     listingType |-> IF entry.is_primary = 1 THEN "new" ELSE "cross",
     primary |-> Split(entry.meta.abs_categories)[1],
     categories |-> entry.meta.abs_categories]

IsNew(entry) == entry.is_primary = 1
IsCross(entry) == entry.is_primary # 1

\* the loop of _entries_into_listing_items: rows with primary == 1 to
\* new_listings, the others to cross_listings, both in input order
_entries_into_listing_items(query_result) ==
    [new_listings |-> [i \in DOMAIN SelectSeq(query_result, IsNew) |->
                          ListingItem(SelectSeq(query_result, IsNew)[i])],
     cross_listings |-> [i \in DOMAIN SelectSeq(query_result, IsCross) |->
                            ListingItem(SelectSeq(query_result, IsCross)[i])]]

get_articles_for_month(archive_or_cat, year, month, skip, show) ==
    LET category_list == _all_possible_categories(archive_or_cat)
    IN  IF category_list.status = "BadRequest"
        THEN [status |-> "BadRequest", queried |-> FALSE]
        ELSE LET ids == doc_ids(year, month)
                 mq == main_query(cat_query(ids, category_list.value))
                 rows == offset_limit(order_by(mq), skip, show)
                 items == _entries_into_listing_items(rows)
             IN  [status |-> "ok",
                  queried |-> TRUE,
                  category_list |-> category_list.value,
                  doc_ids |-> ids,
                  listings |-> items.new_listings \o items.cross_listings,
                  pubdates |-> <<year, IF month # 0 THEN month ELSE 1, 1>>,
                  count |-> Cardinality(mq)]

FullAliases == AliasPool
FullSubsumed == SubsumedPool

InitListing ==
    /\ CATEGORY_ALIASES = FullAliases
    /\ ARCHIVES_SUBSUMED = FullSubsumed
    /\ store \in Stores
    /\ call \in [op : {"get_articles_for_month"}, archive_or_cat : Tokens,
                 year : Years, month : Months, skip : 0..MaxSkip, show : 0..MaxShow]
    /\ result = NoResult

GetArticlesForMonth ==
    /\ call.op = "get_articles_for_month"
    /\ result.status = "none"
    /\ result' = get_articles_for_month(call.archive_or_cat, call.year, call.month,
                                        call.skip, call.show)
    /\ UNCHANGED <<CATEGORY_ALIASES, ARCHIVES_SUBSUMED, store, call>>

NextListing == GetArticlesForMonth

SpecListing == InitListing /\ [][NextListing]_vars

-----------------------------------------------------------------------------
(* Properties of get_articles_for_month *)

Listed == call.op = "get_articles_for_month" /\ result.status = "ok"

\* the text of a category string before its first blank
FirstToken(s) ==
    LET blanks == {i \in DOMAIN s : s[i] = " "}
    IN  SubSeq(s, 1, IF blanks = {} THEN Len(s) ELSE Min(blanks) - 1)

\* YY and MM as the paper ids of the period spell them
ExpectYY(year) ==
    CASE year = 2006 -> <<"0", "6">>
      [] year = 2007 -> <<"0", "7">>
      [] year = 2008 -> <<"0", "8">>

ExpectMM(month) ==
    IF month < 10 THEN <<"0", Digits[month + 1]>> ELSE <<"1", Digits[month - 9]>>

ExpectPeriod(year, month) ==
    IF month = 0 THEN ExpectYY(year) ELSE ExpectYY(year) \o ExpectMM(month)

\* new-format rule: the id starts with YYMM (YY when yearly)
NewFormatRule(paper_id, year, month) ==
    LET pre == ExpectPeriod(year, month)
    IN  \A i \in DOMAIN pre : i <= Len(paper_id) /\ paper_id[i] = pre[i]

\* old-format rule: the id contains "/YYMM" ("/YY" when yearly)
OldFormatRule(paper_id, year, month) ==
    LET pre == ExpectPeriod(year, month)
    IN  \E k \in DOMAIN paper_id :
            /\ paper_id[k] = "/"
            /\ \A i \in DOMAIN pre : k + i <= Len(paper_id) /\ paper_id[k + i] = pre[i]

InPeriod(paper_id, year, month) ==
    CASE year > 2007 -> NewFormatRule(paper_id, year, month)
      [] year < 2007 -> OldFormatRule(paper_id, year, month)
      [] OTHER -> NewFormatRule(paper_id, year, month) \/ OldFormatRule(paper_id, year, month)

C2_Ordering ==
    Listed =>
        \A i, j \in DOMAIN result.listings :
            i < j =>
                LET a == result.listings[i]
                    b == result.listings[j]
                IN  /\ ~(a.listingType = "cross" /\ b.listingType = "new")
                    /\ a.listingType = b.listingType => ~StrLess(b.id, a.id)

\* a page with two new items and a cross item
C2_Witness ==
    /\ Listed
    /\ Len(result.listings) >= 3
    /\ result.listings[1].listingType = "new"
    /\ result.listings[2].listingType = "new"
    /\ result.listings[Len(result.listings)].listingType = "cross"

\* C6 (era predicate boundary): the documents selected by the paper-id filter
\* are, for 2007, those whose id meets the new-format rule or the old-format
\* rule; for 2008, those meeting the new-format rule; for 2006, those meeting
\* the old-format rule.
C6_EraPredicate ==
    Listed =>
        \A d \in Document :
            d.document_id \in result.doc_ids <=>
                CASE call.year = 2007 ->
                         \/ NewFormatRule(d.paper_id, call.year, call.month)
                         \/ OldFormatRule(d.paper_id, call.year, call.month)
                  [] call.year = 2008 -> NewFormatRule(d.paper_id, call.year, call.month)
                  [] call.year = 2006 -> OldFormatRule(d.paper_id, call.year, call.month)

\* a 2007 request whose filter accepted an id of each format
C6_Witness ==
    /\ Listed
    /\ call.year = 2007
    /\ \E d, e \in Document :
           /\ {d.document_id, e.document_id} \subseteq result.doc_ids
           /\ NewFormatRule(d.paper_id, call.year, call.month)
           /\ OldFormatRule(e.paper_id, call.year, call.month)

\* the documents with a row in the filtered, joined set
MatchingDocuments ==
    {d \in Document :
        /\ InPeriod(d.paper_id, call.year, call.month)
        /\ \E r \in DocumentCategory :
               r.document_id = d.document_id /\ r.category \in Range(result.category_list)
        /\ \E m \in Metadata : m.document_id = d.document_id /\ m.is_current = 1}

AnyPrimary(d) ==
    IF \E r \in DocumentCategory :
           /\ r.document_id = d.document_id
           /\ r.category \in Range(result.category_list)
           /\ r.is_primary = 1
    THEN 1 ELSE 0

\* how many matching documents come before d in (anyPrimary desc, paper id asc)
Rank(d) ==
    Cardinality({e \in MatchingDocuments :
                    \/ AnyPrimary(e) > AnyPrimary(d)
                    \/ AnyPrimary(e) = AnyPrimary(d) /\ StrLess(e.paper_id, d.paper_id)})

\* C10 (pagination and total count): count is the number of matching documents
\* whatever skip and show are, and the listings are the documents at positions
\* skip .. skip+show-1 of the (anyPrimary descending, paper id ascending) order.
C10_Pagination ==
    Listed =>
        LET total == Cardinality(MatchingDocuments)
            left == IF total > call.skip THEN total - call.skip ELSE 0
        IN  /\ result.count = total
            /\ Len(result.listings) = (IF call.show < left THEN call.show ELSE left)
            /\ \A k \in DOMAIN result.listings :
                   \E d \in MatchingDocuments :
                       /\ d.paper_id = result.listings[k].id
                       /\ Rank(d) = call.skip + k - 1

\* a page from the middle of a longer result
C10_Witness ==
    /\ Listed
    /\ call.skip > 0
    /\ call.show > 0
    /\ Len(result.listings) = call.show
    /\ result.count > call.skip + call.show

-----------------------------------------------------------------------------
(* get_yearly_article_counts *)

\* func.substr(s, 3, 2)
substr_3_2(s) == SubSeq(s, 3, 4)

\* func.substring_index(s, "/", -1): what follows the last "/"
substring_index_last(s) ==
    LET slashes == {i \in DOMAIN s : s[i] = "/"}
    IN  IF slashes = {} THEN s ELSE SubSeq(s, Max(slashes) + 1, Len(s))

categorization_case(abs_categories, archive) ==
    IF StartsWith(abs_categories, archive) THEN "new"
    ELSE IF Contains(abs_categories, SP \o archive) THEN "cross"
    ELSE "no_match"

\* one row per month: the distinct paper ids categorized new and cross
count_rows(rows, archive, months) ==
    {[month |-> mo,
      count_new |-> Cardinality({m.paper_id : m \in
          {x \in rows : months[x] = mo /\ categorization_case(x.abs_categories, archive) = "new"}}),
      count_cross |-> Cardinality({m.paper_id : m \in
          {x \in rows : months[x] = mo /\ categorization_case(x.abs_categories, archive) = "cross"}})] :
     mo \in {months[x] : x \in rows}}

count_query_new_id(archive, year) ==
    LET rows == {m \in Metadata : StartsWith(m.paper_id, Pad2(year % 100))}
    IN  count_rows(rows, archive, [m \in rows |-> substr_3_2(m.paper_id)])

count_query_old_id(archive, year) ==
    LET rows == {m \in Metadata : Contains(m.paper_id, SLASH \o Pad2(year % 100))}
    IN  count_rows(rows, archive,
                   [m \in rows |-> substr_3_2(substring_index_last(m.paper_id))])

MonthCount(year, month, new, cross) ==
    [year |-> year, month |-> month, new |-> new, cross |-> cross]

YearCount(year, new_count, cross_count, by_month) ==
    [year |-> year, new_count |-> new_count, cross_count |-> cross_count,
     by_month |-> by_month]

\* faulty variant: cross_total accumulates count_new
RECURSIVE process_loop_cross_total_slip(_, _)
process_loop_cross_total_slip(query_result, acc) ==
    IF query_result = {} THEN acc
    ELSE LET entry == CHOOSE r \in query_result : TRUE
             index == ParseInt(entry.month) - 1
         IN  process_loop_cross_total_slip(query_result \ {entry},
                 [monthlist |-> [acc.monthlist EXCEPT ![index + 1].new = entry.count_new,
                                                      ![index + 1].cross = entry.count_cross],
                  new_total |-> acc.new_total + entry.count_new,
                  cross_total |-> acc.cross_total + entry.count_new])

\* the loop of _process_yearly_article_counts over the rows of the query
RECURSIVE process_loop(_, _)
process_loop(query_result, acc) ==
    IF query_result = {} THEN acc
    ELSE LET entry == CHOOSE r \in query_result : TRUE
             index == ParseInt(entry.month) - 1
         IN  process_loop(query_result \ {entry},
                 [monthlist |-> [acc.monthlist EXCEPT ![index + 1].new = entry.count_new,
                                                      ![index + 1].cross = entry.count_cross],
                  new_total |-> acc.new_total + entry.count_new,
                  cross_total |-> acc.cross_total + entry.count_cross])

_process_yearly_article_counts(query_result, year) ==
    LET done == process_loop(query_result,
                    [monthlist |-> [i \in 1..12 |-> MonthCount(year, i, 0, 0)],
                     new_total |-> 0, cross_total |-> 0])
    IN  YearCount(year, done.new_total, done.cross_total, done.monthlist)

_get_yearly_article_counts_new_id(archive, year) ==
    _process_yearly_article_counts(count_query_new_id(archive, year), year)

_get_yearly_article_counts_old_id(archive, year) ==
    _process_yearly_article_counts(count_query_old_id(archive, year), year)

\* faulty variant: the months of the first operand alone
combine_yearly_article_counts_first_months(yc1, yc2) ==
    YearCount(yc1.year,
              yc1.new_count + yc2.new_count,
              yc1.cross_count + yc2.cross_count,
              [i \in 1..12 |-> MonthCount(yc1.year, i, yc1.by_month[i].new, yc1.by_month[i].cross)])

_combine_yearly_article_counts(yc1, yc2) ==
    YearCount(yc1.year,
              yc1.new_count + yc2.new_count,
              yc1.cross_count + yc2.cross_count,
              [i \in 1..12 |-> MonthCount(yc1.year, i,
                                          yc1.by_month[i].new + yc2.by_month[i].new,
                                          yc1.by_month[i].cross + yc2.by_month[i].cross)])

NotCalled == [called |-> FALSE]

\* the result and, beside it, the per-era counts the call computed
get_yearly_article_counts(archive0, year) ==
    LET archive == IF archive0 = s_math /\ ~Contains(archive0, DOT)
                   THEN archive0 \o DOT ELSE archive0
    IN  IF year > 2007
        THEN LET new_id_count == _get_yearly_article_counts_new_id(archive, year)
             IN  [status |-> "ok", value |-> new_id_count,
                  new_id_count |-> new_id_count, old_id_count |-> NotCalled]
        ELSE IF year = 2007
        THEN LET old_id_count == _get_yearly_article_counts_old_id(archive, year)
                 new_id_count == _get_yearly_article_counts_new_id(archive, year)
             IN  [status |-> "ok",
                  value |-> _combine_yearly_article_counts(new_id_count, old_id_count),
                  new_id_count |-> new_id_count, old_id_count |-> old_id_count]
        ELSE LET old_id_count == _get_yearly_article_counts_old_id(archive, year)
             IN  [status |-> "ok", value |-> old_id_count,
                  new_id_count |-> NotCalled, old_id_count |-> old_id_count]

InitCounts ==
    /\ CATEGORY_ALIASES = FullAliases
    /\ ARCHIVES_SUBSUMED = FullSubsumed
    /\ store \in Stores
    /\ call \in [op : {"get_yearly_article_counts"}, archive : Tokens, year : Years]
    /\ result = NoResult

GetYearlyArticleCounts ==
    /\ call.op = "get_yearly_article_counts"
    /\ result.status = "none"
    /\ result' = get_yearly_article_counts(call.archive, call.year)
    /\ UNCHANGED <<CATEGORY_ALIASES, ARCHIVES_SUBSUMED, store, call>>

NextCounts == GetYearlyArticleCounts

SpecCounts == InitCounts /\ [][NextCounts]_vars

-----------------------------------------------------------------------------
(* Any call *)

Init == InitResolve \/ InitListing \/ InitCounts

Next ==
    \/ AllPossibleCategories
    \/ GetArticlesForMonth
    \/ GetYearlyArticleCounts

Spec == Init /\ [][Next]_vars

-----------------------------------------------------------------------------
(* Properties of get_yearly_article_counts *)

Counted == call.op = "get_yearly_article_counts" /\ result.status = "ok"

RECURSIVE SumNew(_, _)
SumNew(by_month, n) == IF n = 0 THEN 0 ELSE SumNew(by_month, n - 1) + by_month[n].new

RECURSIVE SumCross(_, _)
SumCross(by_month, n) == IF n = 0 THEN 0 ELSE SumCross(by_month, n - 1) + by_month[n].cross

\* C3 (yearly aggregate conservation): the 12 by_month entries of the returned
\* YearCount add up to its new_count and to its cross_count, for single-era
\* years and for the merged year 2007.
C3_Conservation ==
    Counted =>
        /\ Len(result.value.by_month) = 12
        /\ SumNew(result.value.by_month, 12) = result.value.new_count
        /\ SumCross(result.value.by_month, 12) = result.value.cross_count

\* a merged 2007 count to which both id eras contributed, with cross-lists
C3_Witness ==
    /\ Counted
    /\ call.year = 2007
    /\ result.new_id_count.new_count + result.new_id_count.cross_count > 0
    /\ result.old_id_count.new_count + result.old_id_count.cross_count > 0
    /\ result.value.new_count > 0
    /\ result.value.cross_count > 0

\* the token the categories are matched against
MatchToken(archive) == IF archive = s_math THEN s_math \o DOT ELSE archive

\* how the categories string classifies a record for a token: new when its
\* first category begins with the token, cross when a later one does
Classify(abs_categories, token) ==
    LET cats == Split(abs_categories)
        begins(c) == Len(token) <= Len(c) /\ \A i \in DOMAIN token : c[i] = token[i]
    IN  IF begins(cats[1]) THEN "new"
        ELSE IF \E i \in 2..Len(cats) : begins(cats[i]) THEN "cross"
        ELSE "no_match"

\* distinct papers of a month, id era and class in the store
ExpectNewEra(archive, year, month, class) ==
    Cardinality({m.paper_id : m \in {x \in Metadata :
        /\ NewFormatRule(x.paper_id, year, month)
        /\ Classify(x.abs_categories, MatchToken(archive)) = class}})

ExpectOldEra(archive, year, month, class) ==
    Cardinality({m.paper_id : m \in {x \in Metadata :
        /\ OldFormatRule(x.paper_id, year, month)
        /\ Classify(x.abs_categories, MatchToken(archive)) = class}})

\* C7 (2007 merge correctness): for 2007 the result is the month-by-month sum
\* of the new-id count and the old-id count, labelled with the year of the
\* first operand (the new-id count); for a later year it is the count over
\* new-format ids alone, for an earlier year over old-format ids alone.
C7_Merge ==
    Counted =>
        \A i \in 1..12 :
            LET mc == result.value.by_month[i]
            IN  /\ mc.month = i
                /\ mc.year = result.value.year
                /\ call.year = 2007 =>
                       /\ result.value.year = result.new_id_count.year
                       /\ mc.new = result.new_id_count.by_month[i].new
                                   + result.old_id_count.by_month[i].new
                       /\ mc.cross = result.new_id_count.by_month[i].cross
                                     + result.old_id_count.by_month[i].cross
                       /\ mc.new = ExpectNewEra(call.archive, call.year, i, "new")
                                   + ExpectOldEra(call.archive, call.year, i, "new")
                       /\ mc.cross = ExpectNewEra(call.archive, call.year, i, "cross")
                                     + ExpectOldEra(call.archive, call.year, i, "cross")
                /\ call.year > 2007 =>
                       /\ result.old_id_count = NotCalled
                       /\ mc.new = ExpectNewEra(call.archive, call.year, i, "new")
                       /\ mc.cross = ExpectNewEra(call.archive, call.year, i, "cross")
                /\ call.year < 2007 =>
                       /\ result.new_id_count = NotCalled
                       /\ mc.new = ExpectOldEra(call.archive, call.year, i, "new")
                       /\ mc.cross = ExpectOldEra(call.archive, call.year, i, "cross")

\* a 2007 merge in which each operand brought papers of its own
C7_Witness ==
    /\ Counted
    /\ call.year = 2007
    /\ result.new_id_count.new_count > 0
    /\ result.old_id_count.new_count > 0
    /\ result.old_id_count.cross_count + result.new_id_count.cross_count > 0
    /\ result.value.new_count =
           result.new_id_count.new_count + result.old_id_count.new_count

-----------------------------------------------------------------------------
(* Unknown tokens *)

Answered ==
    /\ call.op \in {"_all_possible_categories", "get_articles_for_month"}
    /\ result.status # "none"

\* C4 (an unresolvable token is an error): a token that is neither an archive
\* nor a category makes the resolution, and get_articles_for_month before it
\* queries the store, fail with BadRequest; and no resolution that succeeds
\* returns an empty list.
C4_UnknownTokenFails ==
    Answered =>
        /\ call.archive_or_cat \notin (ARCHIVES \cup CategoryNames) =>
               /\ result.status = "BadRequest"
               /\ call.op = "get_articles_for_month" => ~result.queried
        /\ call.archive_or_cat \in (ARCHIVES \cup CategoryNames) => result.status = "ok"
        /\ (call.op = "_all_possible_categories" /\ result.status = "ok") =>
               result.value # <<>>
        /\ (call.op = "get_articles_for_month" /\ result.status = "ok") =>
               result.category_list # <<>>

\* a listing was asked for an unknown token over a store that has documents
C4_Witness ==
    /\ call.op = "get_articles_for_month"
    /\ call.archive_or_cat = s_xx_ZZ
    /\ store # {}
    /\ result.status = "BadRequest"

====
